---- MODULE Spec2Model ----
(***************************************************************************)
(* LRUCache of src/mittel/M3_lru_cache/lru_cache.py as a state machine.    *)
(*                                                                         *)
(* The OrderedDict self.cache is a sequence of entries [key, value]: index *)
(* 1 is the first (oldest, least-recent) item, index Len the last one.     *)
(* Every method of the class is one action; the record `last` holds the    *)
(* call that was made and what it returned, `prev` the state it was made   *)
(* in, `arg` the argument the constructor was called with.  `uses` is a    *)
(* history variable: the keys used (put, or get hit) since construction or *)
(* the last clear, ordered by the time of their most recent use;           *)
(* `putSinceClear` tells whether a put was made since then.                *)
(*                                                                         *)
(* SpecFifo runs the same methods with another history: `ins` holds the    *)
(* present keys in the order of their insertion, `touched` the keys that   *)
(* had a get hit or an update since they were last inserted (and since the *)
(* last clear); `prev` and `uses` are not recorded there.                  *)
(***************************************************************************)
EXTENDS Integers, Sequences, FiniteSets

\* Largest capacity the constructor is called with.
MaxCapacity == 3

\* Keys and values the calls are made with.  None is Python's None object,
\* the other values are any objects that are not None.
Keys == {"a", "b", "c", "d"}
None == "None"
Values == {None, "v1"}

\* Markers of the records: no key, no exception raised.
NoKey == "-"
NoError == "none"
CapacityArgs == (-1)..MaxCapacity

VARIABLES pc, arg, capacity, cache, uses, putSinceClear, last, prev, ins, touched

\* A second cache, constructed when the first one is cleared, and the call
\* that was last made on it.
VARIABLES twin, twinLast

\* The optimized auth system: the time, the rows of the users table, the
\* tokens handed out so far, the revocation list of the TokenManager, the call
\* that was last made; `everRevoked` is a history variable, the tokens that
\* revoke_token was ever called with.
VARIABLES clock, users, issued, revoked, everRevoked, authLast

\* Two threads calling put: whether they call under a lock, the thread that
\* holds the lock, each thread's position in put and the key it puts;
\* `start` is a history variable, the cache at the time they were started.
VARIABLES sync, lock, threads, start

\* The baseline auth system: the rows of the users table, the register call
\* that was last made, the rows before that call.
VARIABLES baseUsers, baseLast, basePrev

lruVars == <<pc, arg, capacity, cache, uses, putSinceClear, last, prev, ins, touched>>
twinVars == <<twin, twinLast>>
authVars == <<clock, users, issued, revoked, everRevoked, authLast>>
baseVars == <<baseUsers, baseLast, basePrev>>
threadVars == <<sync, lock, threads, start>>

\* The state that belongs to no LRUCache method.
otherVars == <<twinVars, authVars, baseVars, threadVars>>

\* The state the calls on the two caches, on the optimized auth system and on
\* the baseline auth system leave alone.
outsideTwin == <<authVars, baseVars, threadVars>>
outsideAuth == <<lruVars, twinVars, baseVars, threadVars>>
outsideBase == <<lruVars, twinVars, authVars, threadVars>>
outsideThreads == <<twinVars, authVars, baseVars>>

vars == <<pc, arg, capacity, cache, uses, putSinceClear, last, prev, ins, touched,
          otherVars>>

----------------------------------------------------------------------------
(* OrderedDict *)

Entry(k, v) == [key |-> k, value |-> v]

KeysOf(c) == {c[i].key : i \in 1..Len(c)}

\* key in self.cache
Contains(c, k) == \E i \in 1..Len(c) : c[i].key = k

IndexOf(c, k) == CHOOSE i \in 1..Len(c) : c[i].key = k

\* The place of k in c, 0 when k is not a key of c.
Position(c, k) == IF Contains(c, k) THEN IndexOf(c, k) ELSE 0

\* self.cache[key]
GetItem(c, k) == c[IndexOf(c, k)].value

\* self.cache[key] and self.cache.move_to_end(key) raise KeyError for a
\* key that is not there, self.cache.popitem() on an empty dictionary.
MissingKeyRaises(c, k) == ~Contains(c, k)

PopItemRaises(c) == c = << >>

RemoveAt(c, i) == SubSeq(c, 1, i - 1) \o SubSeq(c, i + 1, Len(c))

\* self.cache.move_to_end(key)
MoveToEnd(c, k) == RemoveAt(c, IndexOf(c, k)) \o <<c[IndexOf(c, k)]>>

\* Faulty variant: the item is appended without a look for the key.
SetItemAppend(c, k, v) == Append(c, Entry(k, v))

\* self.cache[key] = value: an existing key keeps its position, a new key
\* is appended.
SetItem(c, k, v) ==
    IF Contains(c, k)
    THEN [c EXCEPT ![IndexOf(c, k)] = Entry(k, v)]
    ELSE Append(c, Entry(k, v))

\* Faulty variant: popitem() with its default last=True pops the newest item.
PopLast(c) == SubSeq(c, 1, Len(c) - 1)

\* self.cache.popitem(last=False): what is left, and the key popped
PopFirst(c) == Tail(c)

PopFirstKey(c) == Head(c).key

----------------------------------------------------------------------------
(* LRUCache *)

\* Faulty variant: the capacity check lets 0 through.
ValidCapacityFromZero(c) == c >= 0

\* __init__: the capacity check
ValidCapacity(c) == c >= 1

\* size()
Size(c) == Len(c)

\* Faulty variant: get without the look for the key.
GetRaisedUnguarded(c, k) == IF MissingKeyRaises(c, k) THEN "KeyError" ELSE NoError

\* get: the exception raised, NoError when none is
GetRaised(c, k) ==
    IF ~Contains(c, k) THEN NoError
    ELSE IF MissingKeyRaises(c, k) \/ MissingKeyRaises(MoveToEnd(c, k), k)
    THEN "KeyError"
    ELSE NoError

\* Faulty variant: the hit branch returns nothing, so the call gives None.
GetReturnNothing(c, k) == None

\* get: the returned value
GetReturn(c, k) == IF ~Contains(c, k) THEN None ELSE GetItem(MoveToEnd(c, k), k)

\* Faulty variant: a hit does not move the key.
GetCacheNoMove(c, k) == c

\* Faulty variant: a miss stores None for the key, as a defaultdict does.
GetCacheInsertOnMiss(c, k) ==
    IF ~Contains(c, k) THEN Append(c, Entry(k, None)) ELSE MoveToEnd(c, k)

\* Faulty variant: move_to_end(key, last=False) moves a hit key to the front.
GetCacheToFront(c, k) ==
    IF ~Contains(c, k) THEN c
    ELSE <<c[IndexOf(c, k)]>> \o RemoveAt(c, IndexOf(c, k))

\* get: self.cache afterwards
GetCache(c, k) == IF ~Contains(c, k) THEN c ELSE MoveToEnd(c, k)

\* Faulty variant: the is-full check off by one.
IsFullOffByOne(c, cap) == Len(c) > cap

\* Faulty variant: a cache with one free slot left counts as full.
IsFullEarly(c, cap) == Len(c) >= 1 /\ Len(c) >= cap - 1

\* put: the is-full check
IsFull(c, cap) == Len(c) >= cap

\* put: the exception raised, NoError when none is
PutRaised(c, cap, k) ==
    IF Contains(c, k)
    THEN IF MissingKeyRaises(c, k) THEN "KeyError" ELSE NoError
    ELSE IF IsFull(c, cap) /\ PopItemRaises(c) THEN "KeyError"
    ELSE NoError

\* put: the key popped by the call, NoKey when none is
PutEvicted(c, cap, k) ==
    IF Contains(c, k) THEN NoKey
    ELSE IF IsFull(c, cap) /\ ~PopItemRaises(c) THEN PopFirstKey(c)
    ELSE NoKey

\* Faulty variant: an existing key is moved to the end, its value is kept.
PutCacheNoOverwrite(c, cap, k, v) ==
    IF Contains(c, k) THEN MoveToEnd(c, k)
    ELSE IF IsFull(c, cap) THEN SetItem(PopFirst(c), k, v)
    ELSE SetItem(c, k, v)

\* Faulty variant: an existing key is overwritten where it is, not moved.
PutCacheNoMove(c, cap, k, v) ==
    IF Contains(c, k) THEN SetItem(c, k, v)
    ELSE IF IsFull(c, cap) THEN SetItem(PopFirst(c), k, v)
    ELSE SetItem(c, k, v)

\* Faulty variant: the new item is stored only when nothing was popped.
PutCacheElseInsert(c, cap, k, v) ==
    IF Contains(c, k) THEN SetItem(MoveToEnd(c, k), k, v)
    ELSE IF IsFull(c, cap) THEN PopFirst(c)
    ELSE SetItem(c, k, v)

\* Faulty variant: no return after the update of an existing key, so the
\* call goes on to the is-full check.
PutCacheFallThrough(c, cap, k, v) ==
    IF Contains(c, k)
    THEN IF IsFull(SetItem(MoveToEnd(c, k), k, v), cap)
         THEN SetItem(PopFirst(SetItem(MoveToEnd(c, k), k, v)), k, v)
         ELSE SetItem(MoveToEnd(c, k), k, v)
    ELSE IF IsFull(c, cap) THEN SetItem(PopFirst(c), k, v)
    ELSE SetItem(c, k, v)

\* Faulty variant: a new key is put at the least-recent end.
PutCacheInsertFront(c, cap, k, v) ==
    IF Contains(c, k) THEN SetItem(MoveToEnd(c, k), k, v)
    ELSE IF IsFull(c, cap) THEN <<Entry(k, v)>> \o PopFirst(c)
    ELSE <<Entry(k, v)>> \o c

\* put: self.cache afterwards (a popitem that raises ends the call)
PutCache(c, cap, k, v) ==
    IF Contains(c, k) THEN SetItem(MoveToEnd(c, k), k, v)
    ELSE IF IsFull(c, cap)
    THEN IF PopItemRaises(c) THEN c ELSE SetItem(PopFirst(c), k, v)
    ELSE SetItem(c, k, v)

\* Faulty variant: clear pops one item instead of all.
ClearCacheOne(c) == IF c = << >> THEN c ELSE Tail(c)

\* clear: self.cache afterwards
ClearCache(c) == << >>

----------------------------------------------------------------------------
(* History *)

\* The sequence s without the key k.
DropKey(s, k) == SelectSeq(s, LAMBDA x : x # k)

\* A use of k: k is now the most recently used key.
Use(s, k) == Append(DropKey(s, k), k)

Call(op, k, v, ret, found, evicted, n) ==
    [op |-> op, key |-> k, value |-> v, ret |-> ret, found |-> found,
     evicted |-> evicted, n |-> n, pos |-> 0, raised |-> NoError]

NoCall == Call("none", NoKey, None, None, FALSE, NoKey, 0)

Before == [cache |-> cache, uses |-> uses, op |-> last.op, pos |-> last.pos]

\* The object LRUCache(c) is for a valid capacity c, `dropped` being the
\* number of entries the clear that went before its construction removed.
NewCache(c) == [made |-> TRUE, capacity |-> c, cache |-> << >>, dropped |-> 0]

\* A call on the optimized auth system: the token it was made with, the
\* success, the message and the user id it returned, the time it was made at.
AuthCall(op, t, ok, msg, ret) ==
    [op |-> op, token |-> t, ok |-> ok, msg |-> msg, ret |-> ret, at |-> clock]

NoAuthCall ==
    AuthCall("none", [user_id |-> 0, type |-> "none", exp |-> 0, iat |-> 0,
                      sig |-> "malformed"], FALSE, "", 0)

\* The threads, the marker for no thread, and the value they put.
Threads == {"t1", "t2"}
NoThread == "-"
ThreadValue == "v1"

\* No second cache was constructed.
NoTwin == [made |-> FALSE, capacity |-> 0, cache |-> << >>, dropped |-> 0]

----------------------------------------------------------------------------
(* Actions *)

Init ==
    /\ pc = "new"
    /\ arg = 0
    /\ capacity = 0
    /\ cache = << >>
    /\ uses = << >>
    /\ putSinceClear = FALSE
    /\ ins = << >>
    /\ touched = {}
    /\ last = NoCall
    /\ prev = [cache |-> << >>, uses |-> << >>, op |-> "none", pos |-> 0]
    /\ twin = NoTwin
    /\ twinLast = NoCall
    /\ clock = 0
    /\ users = << >>
    /\ issued = {}
    /\ revoked = {}
    /\ everRevoked = {}
    /\ authLast = NoAuthCall
    /\ baseUsers = << >>
    /\ baseLast = [op |-> "none", username |-> << >>, email |-> << >>,
                   password |-> << >>, ok |-> FALSE, msg |-> "", ret |-> 0]
    /\ basePrev = << >>
    /\ sync = FALSE
    /\ lock = NoThread
    /\ threads = [t \in Threads |-> [pc |-> "idle", key |-> NoKey]]
    /\ start = [made |-> FALSE, cache |-> << >>]

\* LRUCache(c)
Construct(c) ==
    /\ pc = "new"
    /\ arg' = c
    /\ IF ~ValidCapacity(c)
       THEN /\ pc' = "ValueError"
            /\ UNCHANGED <<capacity, cache>>
       ELSE /\ pc' = "ready"
            /\ capacity' = c
            /\ cache' = << >>
    /\ uses' = << >>
    /\ putSinceClear' = FALSE
    /\ last' = Call("init", NoKey, None, None, FALSE, NoKey, c)
    /\ prev' = Before
    /\ UNCHANGED <<ins, touched, otherVars>>

\* cache.get(k)
Get(k) ==
    /\ pc = "ready"
    /\ cache' = GetCache(cache, k)
    /\ uses' = IF Contains(cache, k) THEN Use(uses, k) ELSE uses
    /\ last' = [Call("get", k, None, GetReturn(cache, k), Contains(cache, k), NoKey, 0)
                   EXCEPT !.pos = Position(cache, k), !.raised = GetRaised(cache, k)]
    /\ prev' = Before
    /\ UNCHANGED <<pc, arg, capacity, putSinceClear, ins, touched, otherVars>>

\* Faulty variant: a full cache grows instead of evicting.
PutGrowing(k, v) ==
    /\ pc = "ready"
    /\ capacity' = IF ~Contains(cache, k) /\ IsFull(cache, capacity)
                   THEN capacity + 1 ELSE capacity
    /\ cache' = PutCache(cache, capacity', k, v)
    /\ uses' = Use(uses, k)
    /\ putSinceClear' = TRUE
    /\ last' = Call("put", k, v, None, Contains(cache, k), NoKey, 0)
    /\ prev' = Before
    /\ UNCHANGED <<pc, arg, ins, touched, otherVars>>

\* cache.put(k, v)
Put(k, v) ==
    /\ pc = "ready"
    /\ cache' = PutCache(cache, capacity, k, v)
    /\ uses' = IF PutRaised(cache, capacity, k) = NoError THEN Use(uses, k) ELSE uses
    /\ putSinceClear' = (putSinceClear \/ PutRaised(cache, capacity, k) = NoError)
    /\ last' = [Call("put", k, v, None, Contains(cache, k),
                     PutEvicted(cache, capacity, k), 0)
                   EXCEPT !.pos = Position(cache, k),
                          !.raised = PutRaised(cache, capacity, k)]
    /\ prev' = Before
    /\ UNCHANGED <<pc, arg, capacity, ins, touched, otherVars>>

\* cache.size()
SizeCall ==
    /\ pc = "ready"
    /\ last' = Call("size", NoKey, None, None, FALSE, NoKey, Size(cache))
    /\ prev' = Before
    /\ UNCHANGED <<pc, arg, capacity, cache, uses, putSinceClear, ins, touched, otherVars>>

\* cache.clear()
ClearCall ==
    /\ pc = "ready"
    /\ cache' = ClearCache(cache)
    /\ uses' = << >>
    /\ putSinceClear' = FALSE
    /\ last' = Call("clear", NoKey, None, None, FALSE, NoKey, 0)
    /\ prev' = Before
    /\ UNCHANGED <<pc, arg, capacity, ins, touched, otherVars>>

\* Faulty variant: the membership test is made with get, which moves a
\* present key to the end.
ContainsCallByGet(k) ==
    /\ pc = "ready"
    /\ cache' = GetCache(cache, k)
    /\ uses' = IF Contains(cache, k) THEN Use(uses, k) ELSE uses
    /\ last' = Call("contains", k, None, None, GetReturn(cache, k) # None, NoKey, 0)
    /\ prev' = Before
    /\ UNCHANGED <<pc, arg, capacity, putSinceClear, ins, touched, otherVars>>

\* Faulty variant: the membership test looks at the stored value.
ContainsCallByValue(k) ==
    /\ pc = "ready"
    /\ last' = Call("contains", k, None, None,
                    Contains(cache, k) /\ GetItem(cache, k) # None, NoKey, 0)
    /\ prev' = Before
    /\ UNCHANGED <<pc, arg, capacity, cache, uses, putSinceClear, ins, touched, otherVars>>

\* k in cache
ContainsCall(k) ==
    /\ pc = "ready"
    /\ last' = Call("contains", k, None, None, Contains(cache, k), NoKey, 0)
    /\ prev' = Before
    /\ UNCHANGED <<pc, arg, capacity, cache, uses, putSinceClear, ins, touched, otherVars>>

Next ==
    \/ \E c \in CapacityArgs : Construct(c)
    \/ \E k \in Keys : Get(k)
    \/ \E k \in Keys, v \in Values : Put(k, v)
    \/ SizeCall
    \/ ClearCall
    \/ \E k \in Keys : ContainsCall(k)

Spec == Init /\ [][Next]_vars

----------------------------------------------------------------------------
(* The methods with the history of insertions *)

\* cache.get(k)
FifoGet(k) ==
    /\ pc = "ready"
    /\ cache' = GetCache(cache, k)
    /\ touched' = IF Contains(cache, k) THEN touched \cup {k} ELSE touched
    /\ last' = Call("get", k, None, GetReturn(cache, k), Contains(cache, k), NoKey, 0)
    /\ UNCHANGED <<pc, arg, capacity, uses, putSinceClear, prev, ins, otherVars>>

\* cache.put(k, v)
FifoPut(k, v) ==
    /\ pc = "ready"
    /\ cache' = PutCache(cache, capacity, k, v)
    /\ ins' = SelectSeq(IF Contains(cache, k) THEN ins ELSE Append(ins, k),
                        LAMBDA x : x \in KeysOf(cache'))
    /\ touched' = IF Contains(cache, k) THEN touched \cup {k} ELSE touched \ {k}
    /\ last' = Call("put", k, v, None, Contains(cache, k),
                    PutEvicted(cache, capacity, k), 0)
    /\ UNCHANGED <<pc, arg, capacity, uses, putSinceClear, prev, otherVars>>

\* cache.clear()
FifoClear ==
    /\ pc = "ready"
    /\ cache' = ClearCache(cache)
    /\ ins' = << >>
    /\ touched' = {}
    /\ last' = Call("clear", NoKey, None, None, FALSE, NoKey, 0)
    /\ UNCHANGED <<pc, arg, capacity, uses, putSinceClear, prev, otherVars>>

\* k in cache
FifoContains(k) ==
    /\ pc = "ready"
    /\ last' = Call("contains", k, None, None, Contains(cache, k), NoKey, 0)
    /\ UNCHANGED <<pc, arg, capacity, cache, uses, putSinceClear, prev, ins, touched, otherVars>>

NextFifo ==
    \/ \E c \in CapacityArgs : Construct(c)
    \/ \E k \in Keys : FifoGet(k)
    \/ \E k \in Keys, v \in Values : FifoPut(k, v)
    \/ FifoClear
    \/ \E k \in Keys : FifoContains(k)

SpecFifo == Init /\ [][NextFifo]_vars

----------------------------------------------------------------------------
(* A cleared cache next to a newly constructed one *)

\* The methods are called on the cache and, once a clear has been made, with
\* the same arguments on a second cache that was constructed with the same
\* capacity at the time of that clear.  `twinLast` is the call on the second
\* cache and what it returned.

\* cache.clear(), and twin = LRUCache(cache.capacity)
TwinClear ==
    /\ pc = "ready"
    /\ cache' = ClearCache(cache)
    /\ last' = Call("clear", NoKey, None, None, FALSE, NoKey, 0)
    /\ twin' = [NewCache(capacity) EXCEPT !.dropped = Size(cache)]
    /\ twinLast' = Call("init", NoKey, None, None, FALSE, NoKey, capacity)
    /\ UNCHANGED <<pc, arg, capacity, uses, putSinceClear, prev, ins, touched,
                   outsideTwin>>

\* cache.clear() and twin.clear()
TwinClearBoth ==
    /\ pc = "ready"
    /\ twin.made
    /\ cache' = ClearCache(cache)
    /\ last' = Call("clear", NoKey, None, None, FALSE, NoKey, 0)
    /\ twin' = [twin EXCEPT !.cache = ClearCache(twin.cache)]
    /\ twinLast' = Call("clear", NoKey, None, None, FALSE, NoKey, 0)
    /\ UNCHANGED <<pc, arg, capacity, uses, putSinceClear, prev, ins, touched,
                   outsideTwin>>

\* cache.get(k) and twin.get(k)
TwinGet(k) ==
    /\ pc = "ready"
    /\ cache' = GetCache(cache, k)
    /\ last' = Call("get", k, None, GetReturn(cache, k), Contains(cache, k), NoKey, 0)
    /\ IF twin.made
       THEN /\ twin' = [twin EXCEPT !.cache = GetCache(twin.cache, k)]
            /\ twinLast' = Call("get", k, None, GetReturn(twin.cache, k),
                                Contains(twin.cache, k), NoKey, 0)
       ELSE UNCHANGED <<twin, twinLast>>
    /\ UNCHANGED <<pc, arg, capacity, uses, putSinceClear, prev, ins, touched,
                   outsideTwin>>

\* cache.put(k, v) and twin.put(k, v)
TwinPut(k, v) ==
    /\ pc = "ready"
    /\ cache' = PutCache(cache, capacity, k, v)
    /\ last' = Call("put", k, v, None, Contains(cache, k),
                    PutEvicted(cache, capacity, k), 0)
    /\ IF twin.made
       THEN /\ twin' = [twin EXCEPT !.cache = PutCache(twin.cache, twin.capacity, k, v)]
            /\ twinLast' = Call("put", k, v, None, Contains(twin.cache, k),
                                PutEvicted(twin.cache, twin.capacity, k), 0)
       ELSE UNCHANGED <<twin, twinLast>>
    /\ UNCHANGED <<pc, arg, capacity, uses, putSinceClear, prev, ins, touched,
                   outsideTwin>>

\* cache.size() and twin.size()
TwinSize ==
    /\ pc = "ready"
    /\ last' = Call("size", NoKey, None, None, FALSE, NoKey, Size(cache))
    /\ IF twin.made
       THEN twinLast' = Call("size", NoKey, None, None, FALSE, NoKey, Size(twin.cache))
       ELSE UNCHANGED twinLast
    /\ UNCHANGED <<pc, arg, capacity, cache, uses, putSinceClear, prev, ins, touched,
                   twin, outsideTwin>>

\* k in cache and k in twin
TwinContains(k) ==
    /\ pc = "ready"
    /\ last' = Call("contains", k, None, None, Contains(cache, k), NoKey, 0)
    /\ IF twin.made
       THEN twinLast' = Call("contains", k, None, None, Contains(twin.cache, k),
                             NoKey, 0)
       ELSE UNCHANGED twinLast
    /\ UNCHANGED <<pc, arg, capacity, cache, uses, putSinceClear, prev, ins, touched,
                   twin, outsideTwin>>

NextTwin ==
    \/ \E c \in CapacityArgs : Construct(c)
    \/ TwinClear
    \/ TwinClearBoth
    \/ \E k \in Keys : TwinGet(k)
    \/ \E k \in Keys, v \in Values : TwinPut(k, v)
    \/ TwinSize
    \/ \E k \in Keys : TwinContains(k)

SpecTwin == Init /\ [][NextTwin]_vars

----------------------------------------------------------------------------
(* Strings *)

\* A string is the sequence of its characters.
LowerCase == {"a", "b", "c", "d", "e", "f", "g", "h", "i", "j", "k", "l", "m",
              "n", "o", "p", "q", "r", "s", "t", "u", "v", "w", "x", "y", "z"}
UpperCase == {"A", "B", "C", "D", "E", "F", "G", "H", "I", "J", "K", "L", "M",
              "N", "O", "P", "Q", "R", "S", "T", "U", "V", "W", "X", "Y", "Z"}
Digits == {"0", "1", "2", "3", "4", "5", "6", "7", "8", "9"}

\* s consists of characters of the class only: [class]*
AllIn(s, class) == \A i \in 1..Len(s) : s[i] \in class

\* s has a character of the class: re.search('[class]', s)
SomeIn(s, class) == \E i \in 1..Len(s) : s[i] \in class

\* s[a..b]
Slice(s, a, b) == [i \in 1..(b - a + 1) |-> s[a + i - 1]]

----------------------------------------------------------------------------
(* Optimized auth system: TokenManager *)

\* timedelta(hours=1) and timedelta(days=7) in seconds
AccessTokenExpiry == 3600
RefreshTokenExpiry == 604800

\* Moments (seconds) at which calls are made.
Moments == {0, 3600, 604800}

\* jwt.encode: the payload with a signature made with the secret.
Encode(payload) ==
    [user_id |-> payload.user_id, type |-> payload.type, exp |-> payload.exp,
     iat |-> payload.iat, sig |-> "secret"]

\* The string "invalid.token.here": not a JWT at all.
Malformed == [user_id |-> 0, type |-> "none", exp |-> 0, iat |-> 0, sig |-> "malformed"]

\* A token whose type was rewritten by someone who does not hold the secret.
Tamper(t) ==
    [t EXCEPT !.type = IF t.type = "access" THEN "refresh" ELSE "access",
              !.sig = "forged"]

\* The return value None of the token methods, and of validate_access_token.
NoPayload == [user_id |-> 0, type |-> "none", exp |-> 0, iat |-> 0]
NoUserId == 0

\* jwt.decode(token, secret): the payload, or the exception raised.
DecodeRaises(t, now) ==
    IF t.sig # "secret" THEN "InvalidTokenError"
    ELSE IF t.exp <= now THEN "ExpiredSignatureError"
    ELSE NoError

Decode(t, now) ==
    [user_id |-> t.user_id, type |-> t.type, exp |-> t.exp, iat |-> t.iat]

GenerateAccessToken(user_id, now) ==
    Encode([user_id |-> user_id, type |-> "access",
            exp |-> now + AccessTokenExpiry, iat |-> now])

GenerateRefreshToken(user_id, now) ==
    Encode([user_id |-> user_id, type |-> "refresh",
            exp |-> now + RefreshTokenExpiry, iat |-> now])

\* Faulty variant: the revocation list is not looked at.
ValidateTokenUnrevoked(rev, t, now) ==
    IF DecodeRaises(t, now) # NoError THEN NoPayload ELSE Decode(t, now)

\* TokenManager.validate_token
ValidateToken(rev, t, now) ==
    IF t \in rev THEN NoPayload
    ELSE IF DecodeRaises(t, now) # NoError THEN NoPayload
    ELSE Decode(t, now)

\* TokenManager.revoke_token
RevokeToken(rev, t) == rev \cup {t}

----------------------------------------------------------------------------
(* Optimized auth system: UserManager *)

Row(id, username, email, password_hash) ==
    [id |-> id, username |-> username, email |-> email,
     password_hash |-> password_hash]

\* The return value None of the lookups.
NoRow == Row(0, << >>, << >>, << >>)

\* UserManager.get_user_by_username
GetUserByUsername(db, username) ==
    IF \E i \in 1..Len(db) : db[i].username = username
    THEN db[CHOOSE i \in 1..Len(db) : db[i].username = username]
    ELSE NoRow

\* The INSERT of create_user violates a UNIQUE constraint of the table.
IntegrityError(db, username, email) ==
    \E i \in 1..Len(db) : db[i].username = username \/ db[i].email = email

\* UserManager.create_user: the table after the INSERT; the id is the
\* AUTOINCREMENT key, no row being ever deleted here.
CreateUser(db, username, email, password_hash) ==
    IF IntegrityError(db, username, email) THEN db
    ELSE Append(db, Row(Len(db) + 1, username, email, password_hash))

----------------------------------------------------------------------------
(* Optimized auth system: AuthService *)

\* Usernames, passwords and emails the calls are made with.
OptUsernames == {<<"a", "b">>, <<"b", "o", "b">>, <<"a", "n", "n">>, <<"a", "-", "b">>}
OptPasswords == {<<"P", "a", "s", "s", "w", "0", "r", "d">>,
                 <<"P", "a", "s", "s", "w", "o", "r", "d">>,
                 <<"P", "w", "0">>}
OptEmails == {<<"a", "@", "b", ".", "d", "e">>, <<"a", "@", "b">>}

\* Largest number of tokens handed out, and of tokens revoked.
MaxIssued == 4
MaxRevoked == 1

MinUsernameLength == 3
MaxUsernameLength == 50
MinPasswordLength == 8
MinTldLength == 2

\* AuthService._validate_username: the message, "" when the name is valid
UsernameMessage(username) ==
    IF username = << >> \/ Len(username) < MinUsernameLength
         \/ Len(username) > MaxUsernameLength
    THEN "Username must be 3-50 characters"
    ELSE IF ~(username # << >>
              /\ AllIn(username, LowerCase \cup UpperCase \cup Digits \cup {"_"}))
    THEN "Username can only contain letters, numbers, and underscores"
    ELSE ""

\* AuthService._validate_password
PasswordMessage(password) ==
    IF Len(password) < MinPasswordLength
    THEN "Password must be at least 8 characters"
    ELSE IF ~SomeIn(password, UpperCase)
    THEN "Password must contain at least one uppercase letter"
    ELSE IF ~SomeIn(password, Digits)
    THEN "Password must contain at least one number"
    ELSE ""

\* AuthService._validate_email: local part, "@", domain, ".", top-level
\* domain of two letters or more
EmailMessage(email) ==
    IF \E a \in 2..Len(email), d \in 4..(Len(email) - MinTldLength) :
          /\ a + 2 <= d
          /\ email[a] = "@"
          /\ email[d] = "."
          /\ AllIn(Slice(email, 1, a - 1),
                   LowerCase \cup UpperCase \cup Digits \cup {".", "_", "%", "+", "-"})
          /\ AllIn(Slice(email, a + 1, d - 1),
                   LowerCase \cup UpperCase \cup Digits \cup {".", "-"})
          /\ AllIn(Slice(email, d + 1, Len(email)), LowerCase \cup UpperCase)
    THEN ""
    ELSE "Invalid email format"

\* bcrypt.hashpw and bcrypt.checkpw
OptHashPassword(password) == [algorithm |-> "bcrypt", password |-> password]
OptVerifyPassword(password, hashed) == hashed = OptHashPassword(password)

\* AuthService.register: the message of the returned tuple
OptRegisterMessage(db, username, password, email) ==
    IF UsernameMessage(username) # "" THEN UsernameMessage(username)
    ELSE IF PasswordMessage(password) # "" THEN PasswordMessage(password)
    ELSE IF EmailMessage(email) # "" THEN EmailMessage(email)
    ELSE IF GetUserByUsername(db, username) # NoRow THEN "Username already exists"
    ELSE IF IntegrityError(db, username, email) THEN "Registration failed: UNIQUE constraint failed: users.email"
    ELSE "User registered successfully"

\* AuthService.register: the table afterwards
OptRegisterDb(db, username, password, email) ==
    IF OptRegisterMessage(db, username, password, email) = "User registered successfully"
    THEN CreateUser(db, username, email, OptHashPassword(password))
    ELSE db

\* AuthService.login: success of the returned tuple
OptLoginOk(db, username, password) ==
    /\ GetUserByUsername(db, username) # NoRow
    /\ OptVerifyPassword(password, GetUserByUsername(db, username).password_hash)

\* Faulty variant: the type of the token is not looked at.
RefreshOkAnyType(rev, t, now) == ValidateToken(rev, t, now) # NoPayload

\* AuthService.refresh: success of the returned tuple
RefreshOk(rev, t, now) ==
    /\ ValidateToken(rev, t, now) # NoPayload
    /\ ValidateToken(rev, t, now).type = "refresh"

\* AuthService.refresh: the message of the returned tuple
RefreshMessage(rev, t, now) ==
    IF ValidateToken(rev, t, now) = NoPayload THEN "Invalid refresh token"
    ELSE IF ValidateToken(rev, t, now).type # "refresh" THEN "Invalid token type"
    ELSE "Tokens refreshed"

\* AuthService.validate_access_token
ValidateAccessToken(rev, t, now) ==
    IF ValidateToken(rev, t, now) = NoPayload THEN NoUserId
    ELSE IF ValidateToken(rev, t, now).type # "access" THEN NoUserId
    ELSE ValidateToken(rev, t, now).user_id

\* The pair of tokens login and refresh hand out.
TokenPair(user_id, now) ==
    {GenerateAccessToken(user_id, now), GenerateRefreshToken(user_id, now)}

\* The tokens a caller can present: those handed out, forgeries of them, and
\* a string that is no token.
TokenInputs == issued \cup {Tamper(t) : t \in issued} \cup {Malformed}


OptRegister(username, password, email) ==
    /\ users' = OptRegisterDb(users, username, password, email)
    /\ authLast' = AuthCall("register", Malformed,
                            OptRegisterMessage(users, username, password, email)
                                = "User registered successfully",
                            OptRegisterMessage(users, username, password, email),
                            IF Len(users') > Len(users) THEN Len(users') ELSE NoUserId)
    /\ UNCHANGED <<clock, issued, revoked, everRevoked, outsideAuth>>

OptLogin(username, password) ==
    /\ IF OptLoginOk(users, username, password)
       THEN /\ issued' = issued \cup TokenPair(GetUserByUsername(users, username).id, clock)
            /\ Cardinality(issued') <= MaxIssued
            /\ authLast' = AuthCall("login", Malformed, TRUE, "Login successful",
                                    GetUserByUsername(users, username).id)
       ELSE /\ issued' = issued
            /\ authLast' = AuthCall("login", Malformed, FALSE, "Invalid credentials",
                                    NoUserId)
    /\ UNCHANGED <<clock, users, revoked, everRevoked, outsideAuth>>

\* AuthService.logout(t)
OptLogout(t) ==
    /\ revoked' = RevokeToken(revoked, t)
    /\ Cardinality(revoked') <= MaxRevoked
    /\ everRevoked' = everRevoked \cup {t}
    /\ authLast' = AuthCall("logout", t, TRUE, "", NoUserId)
    /\ UNCHANGED <<clock, users, issued, outsideAuth>>

\* TokenManager.revoke_token(t)
OptRevoke(t) ==
    /\ revoked' = RevokeToken(revoked, t)
    /\ Cardinality(revoked') <= MaxRevoked
    /\ everRevoked' = everRevoked \cup {t}
    /\ authLast' = AuthCall("revoke_token", t, TRUE, "", NoUserId)
    /\ UNCHANGED <<clock, users, issued, outsideAuth>>

\* AuthService.refresh(t)
OptRefresh(t) ==
    /\ IF RefreshOk(revoked, t, clock)
       THEN /\ issued' = issued \cup TokenPair(ValidateToken(revoked, t, clock).user_id, clock)
            /\ Cardinality(issued') <= MaxIssued
       ELSE issued' = issued
    /\ authLast' = AuthCall("refresh", t, RefreshOk(revoked, t, clock),
                            RefreshMessage(revoked, t, clock), NoUserId)
    /\ UNCHANGED <<clock, users, revoked, everRevoked, outsideAuth>>

\* TokenManager.validate_token(t)
OptValidateToken(t) ==
    /\ authLast' = AuthCall("validate_token", t,
                            ValidateToken(revoked, t, clock) # NoPayload, "",
                            ValidateToken(revoked, t, clock).user_id)
    /\ UNCHANGED <<clock, users, issued, revoked, everRevoked, outsideAuth>>

\* AuthService.validate_access_token(t)
OptValidateAccessToken(t) ==
    /\ authLast' = AuthCall("validate_access_token", t,
                            ValidateAccessToken(revoked, t, clock) # NoUserId, "",
                            ValidateAccessToken(revoked, t, clock))
    /\ UNCHANGED <<clock, users, issued, revoked, everRevoked, outsideAuth>>

\* Time passes.
OptTick(m) ==
    /\ m > clock
    /\ clock' = m
    /\ UNCHANGED <<users, issued, revoked, everRevoked, authLast, outsideAuth>>

NextOpt ==
    \/ \E u \in OptUsernames, p \in OptPasswords, e \in OptEmails :
          OptRegister(u, p, e)
    \/ \E u \in OptUsernames, p \in OptPasswords :
          OptLogin(u, p)
    \/ \E t \in TokenInputs : OptLogout(t)
    \/ \E t \in TokenInputs : OptRevoke(t)
    \/ \E t \in TokenInputs : OptRefresh(t)
    \/ \E t \in TokenInputs : OptValidateToken(t)
    \/ \E t \in TokenInputs : OptValidateAccessToken(t)
    \/ \E m \in Moments : OptTick(m)

SpecOpt == Init /\ [][NextOpt]_vars

----------------------------------------------------------------------------
(* Baseline auth system *)

\* Usernames, emails and passwords register is called with.
BaseUsernames == {<< >>, <<"a", "l">>, <<"a", "l", "i">>, <<"b", "o", "b">>}
BaseEmails == {<< >>, <<"a", "l", "i">>, <<"a", "@", "x">>, <<"b", "@", "x">>}
BasePasswords == {<< >>, <<"p", "a", "s", "s", "1">>, <<"p", "a", "s", "s", "1", "2">>}

BaseMinUsernameLength == 3
BaseMinPasswordLength == 6

\* c in s
HasChar(s, c) == \E i \in 1..Len(s) : s[i] = c

\* hashlib.sha256(password.encode()).hexdigest()
BaseHashPassword(password) == [algorithm |-> "sha256", password |-> password]

\* UserManager.get_user_by_username and get_user_by_email: a row was found
BaseUsernameTaken(db, username) == \E i \in 1..Len(db) : db[i].username = username
BaseEmailTaken(db, email) == \E i \in 1..Len(db) : db[i].email = email

\* UserManager.create_user raises ValueError: the INSERT violates a UNIQUE
\* constraint of the table.
BaseCreateUserRaises(db, username, email) ==
    \E i \in 1..Len(db) : db[i].username = username \/ db[i].email = email

\* UserManager.create_user: the table after the INSERT
BaseCreateUser(db, username, email, password_hash) ==
    IF BaseCreateUserRaises(db, username, email) THEN db
    ELSE Append(db, Row(Len(db) + 1, username, email, password_hash))

\* Faulty variant: any email that is not empty is accepted.
BaseEmailInvalidIfEmpty(email) == email = << >>

\* AuthService.register: the checks of the arguments
BaseUsernameInvalid(username) ==
    username = << >> \/ Len(username) < BaseMinUsernameLength
BaseEmailInvalid(email) == email = << >> \/ ~HasChar(email, "@")
BasePasswordInvalid(password) ==
    password = << >> \/ Len(password) < BaseMinPasswordLength

\* AuthService.register: the message of the returned tuple
BaseRegisterMessage(db, username, email, password) ==
    IF BaseUsernameInvalid(username)
    THEN "Username muss mindestens 3 Zeichen lang sein"
    ELSE IF BaseEmailInvalid(email) THEN "Ungueltige Email-Adresse"
    ELSE IF BasePasswordInvalid(password)
    THEN "Passwort muss mindestens 6 Zeichen lang sein"
    ELSE IF BaseUsernameTaken(db, username) THEN "Username bereits vergeben"
    ELSE IF BaseEmailTaken(db, email) THEN "Email bereits vergeben"
    ELSE IF BaseCreateUserRaises(db, username, email)
    THEN "Username oder Email bereits vergeben"
    ELSE "Registrierung erfolgreich"

\* AuthService.register(username, email, password)
BaseRegister(username, email, password) ==
    /\ baseUsers' =
          IF BaseRegisterMessage(baseUsers, username, email, password)
                = "Registrierung erfolgreich"
          THEN BaseCreateUser(baseUsers, username, email, BaseHashPassword(password))
          ELSE baseUsers
    /\ baseLast' =
          [op |-> "register", username |-> username, email |-> email,
           password |-> password,
           ok |-> BaseRegisterMessage(baseUsers, username, email, password)
                     = "Registrierung erfolgreich",
           msg |-> BaseRegisterMessage(baseUsers, username, email, password),
           ret |-> IF Len(baseUsers') > Len(baseUsers) THEN Len(baseUsers')
                   ELSE NoUserId]
    /\ basePrev' = baseUsers
    /\ UNCHANGED outsideBase

NextBase ==
    \E u \in BaseUsernames, e \in BaseEmails, p \in BasePasswords : BaseRegister(u, e, p)

SpecBase == Init /\ [][NextBase]_vars

----------------------------------------------------------------------------
(* Two threads calling put *)

\* One thread fills the cache; then two threads call put on it once each.
\* A put is three steps, between which the other thread can run: the
\* membership test, the is-full test with the eviction, the insertion.  With
\* `sync` every call is made under one lock, which the caller takes before
\* the call and gives back after it.

\* cache.put(k, v) by the one thread there is before the two are started
SeqPut(k) ==
    /\ pc = "ready"
    /\ ~start.made
    /\ cache' = PutCache(cache, capacity, k, ThreadValue)
    /\ UNCHANGED <<pc, arg, capacity, uses, putSinceClear, last, prev, ins, touched,
                   sync, lock, threads, start, outsideThreads>>

\* The two threads are started, with or without the lock.
ThreadsStart(s) ==
    /\ pc = "ready"
    /\ ~start.made
    /\ start' = [made |-> TRUE, cache |-> cache]
    /\ sync' = s
    /\ UNCHANGED <<lruVars, lock, threads, outsideThreads>>

\* The lock after thread t has given it back.
Unlock(t) == IF sync THEN NoThread ELSE lock

\* Thread t calls cache.put(k, v), under the lock if there is one.
ThreadCall(t, k) ==
    /\ start.made
    /\ threads[t].pc = "idle"
    /\ sync => lock = NoThread
    /\ lock' = IF sync THEN t ELSE lock
    /\ threads' = [threads EXCEPT ![t] = [pc |-> "check", key |-> k]]
    /\ UNCHANGED <<lruVars, sync, start, outsideThreads>>

\* if key in self.cache
ThreadCheck(t) ==
    /\ threads[t].pc = "check"
    /\ threads' = [threads EXCEPT ![t].pc =
                      IF Contains(cache, threads[t].key) THEN "update" ELSE "full"]
    /\ UNCHANGED <<lruVars, sync, lock, start, outsideThreads>>

\* self.cache.move_to_end(key); self.cache[key] = value; return
ThreadUpdate(t) ==
    /\ threads[t].pc = "update"
    /\ IF MissingKeyRaises(cache, threads[t].key)
       THEN /\ threads' = [threads EXCEPT ![t].pc = "KeyError"]
            /\ cache' = cache
       ELSE /\ threads' = [threads EXCEPT ![t].pc = "done"]
            /\ cache' = SetItem(MoveToEnd(cache, threads[t].key), threads[t].key,
                                ThreadValue)
    /\ lock' = Unlock(t)
    /\ UNCHANGED <<pc, arg, capacity, uses, putSinceClear, last, prev, ins, touched,
                   sync, start, outsideThreads>>

\* Faulty variant: the lock is given back after the is-full test.
ThreadFullUnlocking(t) ==
    /\ threads[t].pc = "full"
    /\ cache' = IF IsFull(cache, capacity) /\ ~PopItemRaises(cache)
                THEN PopFirst(cache) ELSE cache
    /\ threads' = [threads EXCEPT ![t].pc = "insert"]
    /\ lock' = Unlock(t)
    /\ UNCHANGED <<pc, arg, capacity, uses, putSinceClear, last, prev, ins, touched,
                   sync, start, outsideThreads>>

\* if len(self.cache) >= self.capacity: self.cache.popitem(last=False)
ThreadFull(t) ==
    /\ threads[t].pc = "full"
    /\ IF IsFull(cache, capacity) /\ PopItemRaises(cache)
       THEN /\ threads' = [threads EXCEPT ![t].pc = "KeyError"]
            /\ cache' = cache
            /\ lock' = Unlock(t)
       ELSE /\ threads' = [threads EXCEPT ![t].pc = "insert"]
            /\ cache' = IF IsFull(cache, capacity) THEN PopFirst(cache) ELSE cache
            /\ lock' = lock
    /\ UNCHANGED <<pc, arg, capacity, uses, putSinceClear, last, prev, ins, touched,
                   sync, start, outsideThreads>>

\* self.cache[key] = value
ThreadInsert(t) ==
    /\ threads[t].pc = "insert"
    /\ cache' = SetItem(cache, threads[t].key, ThreadValue)
    /\ threads' = [threads EXCEPT ![t].pc = "done"]
    /\ lock' = Unlock(t)
    /\ UNCHANGED <<pc, arg, capacity, uses, putSinceClear, last, prev, ins, touched,
                   sync, start, outsideThreads>>

NextThreads ==
    \/ \E c \in CapacityArgs : Construct(c)
    \/ \E k \in Keys : SeqPut(k)
    \/ \E s \in BOOLEAN : ThreadsStart(s)
    \/ \E t \in Threads, k \in Keys : ThreadCall(t, k)
    \/ \E t \in Threads : ThreadCheck(t)
    \/ \E t \in Threads : ThreadUpdate(t)
    \/ \E t \in Threads : ThreadFull(t)
    \/ \E t \in Threads : ThreadInsert(t)

SpecThreads == Init /\ [][NextThreads]_vars

----------------------------------------------------------------------------
(* Properties *)

\* The last call was op, made on a constructed cache.
Called(op) == pc = "ready" /\ last.op = op

LastKey(c) == c[Len(c)].key

\* The entries of c other than k's, in their order.
Others(c, k) == SelectSeq(c, LAMBDA e : e.key # k)

\* The place of k in the order of last uses (1: used longest ago).
UseRank(u, k) == CHOOSE i \in 1..Len(u) : u[i] = k

\* The key of c whose most recent use is the earliest.
LeastRecentlyUsed(c, u) ==
    CHOOSE k \in KeysOf(c) : \A j \in KeysOf(c) : UseRank(u, k) <= UseRank(u, j)

\* C1: on a cache constructed with capacity >= 1, after every call
\* 0 <= size() <= capacity, the capacity being the constructor's argument.
C1_SizeWithinCapacity ==
    pc = "ready" =>
        /\ arg >= 1
        /\ 0 <= Size(cache)
        /\ Size(cache) <= arg

\* A put of a new key into a full cache of capacity 2 or more has returned.
C1_Witness ==
    /\ Called("put")
    /\ ~last.found
    /\ Size(prev.cache) = arg
    /\ arg >= 2
    /\ Size(cache) = arg

\* C2: a put of an absent key into a full cache removes exactly one key,
\* the present key whose most recent use (put, or get hit) is the earliest.
C2_EvictsLeastRecentlyUsed ==
    (Called("put") /\ ~Contains(prev.cache, last.key) /\ Size(prev.cache) = capacity) =>
        /\ KeysOf(prev.cache) \ KeysOf(cache)
              = {LeastRecentlyUsed(prev.cache, prev.uses)}
        /\ last.evicted = LeastRecentlyUsed(prev.cache, prev.uses)

\* Such a put right after a get hit, on a cache of capacity 3 whose oldest
\* inserted key is not the one evicted.
C2_Witness ==
    /\ Called("put")
    /\ ~Contains(prev.cache, last.key)
    /\ Size(prev.cache) = capacity
    /\ capacity = 3
    /\ prev.op = "get"
    /\ last.evicted # NoKey
    /\ Len(prev.uses) > 3

C5_ConstructorChecksCapacity ==
    pc # "new" =>
        /\ arg < 1 => (pc = "ValueError" /\ last.op = "init"
                          /\ capacity = 0 /\ cache = << >>)
        /\ arg >= 1 => (pc = "ready" /\ capacity = arg)
        /\ (arg >= 1 /\ last.op = "init") => Size(cache) = 0

\* The constructor was called with 0 and failed.
C5_Witness == pc = "ValueError" /\ arg = 0 /\ last.op = "init"

\* C6: clear() leaves size() == 0 and every key that was present absent; a
\* get made on an empty cache is a miss.
C6_ClearRemovesAll ==
    /\ Called("clear") =>
          /\ Size(cache) = 0
          /\ \A k \in KeysOf(prev.cache) :
                ~Contains(cache, k) /\ GetReturn(cache, k) = None
    /\ (Called("get") /\ prev.op = "clear") =>
          (~last.found /\ last.ret = None /\ Size(cache) = 0)

\* clear() was called on a full cache of capacity 2 or more.
C6_Witness ==
    /\ Called("clear")
    /\ Size(prev.cache) = capacity
    /\ capacity >= 2

\* C7: the membership test leaves keys, values and order as they were, for
\* present and absent keys, and so the key any following put would evict.
C7_ContainsChangesNothing ==
    Called("contains") =>
        /\ cache = prev.cache
        /\ uses = prev.uses
        /\ Size(cache) = Size(prev.cache)
        /\ \A k \in Keys :
              PutEvicted(cache, capacity, k) = PutEvicted(prev.cache, capacity, k)

\* The membership test was made for the least recently used key of a full
\* cache of capacity 2 or more.
C7_Witness ==
    /\ Called("contains")
    /\ last.found
    /\ Size(prev.cache) = capacity
    /\ capacity >= 2
    /\ last.key = prev.cache[1].key

\* C8: the capacity used by put's is-full check is the constructor's
\* argument in every state: a put of an absent key evicts exactly when the
\* cache holds that many entries.
C8_CapacityFixed ==
    pc = "ready" =>
        /\ capacity = arg
        /\ (last.op = "put" /\ ~Contains(prev.cache, last.key)) =>
              (last.evicted # NoKey <=> Size(prev.cache) >= arg)

\* A put evicted from a cache of capacity 2 after a size() call.
C8_Witness ==
    /\ Called("put")
    /\ last.evicted # NoKey
    /\ prev.op = "size"
    /\ arg = 2

\* C9: a get hit returns the stored value and moves the key to the
\* most-recent end; size, every stored value and the order of the other
\* keys are as before.
C9_GetHitFrame ==
    (Called("get") /\ Contains(prev.cache, last.key)) =>
        /\ last.found
        /\ last.ret = GetItem(prev.cache, last.key)
        /\ LastKey(cache) = last.key
        /\ Size(cache) = Size(prev.cache)
        /\ KeysOf(cache) = KeysOf(prev.cache)
        /\ \A k \in KeysOf(prev.cache) : GetItem(cache, k) = GetItem(prev.cache, k)
        /\ Others(cache, last.key) = Others(prev.cache, last.key)

\* A get hit on the least-recent key of a cache of 3 entries.
C9_Witness ==
    /\ Called("get")
    /\ last.found
    /\ Size(prev.cache) = 3
    /\ prev.cache[1].key = last.key

\* C10: a put of a present key overwrites its value, moves it to the
\* most-recent end and evicts nothing, also when the cache is full; size
\* and the other keys' values and order are as before.
C10_PutExistingKey ==
    (Called("put") /\ Contains(prev.cache, last.key)) =>
        /\ last.found
        /\ GetItem(cache, last.key) = last.value
        /\ LastKey(cache) = last.key
        /\ Size(cache) = Size(prev.cache)
        /\ last.evicted = NoKey
        /\ KeysOf(cache) = KeysOf(prev.cache)
        /\ Others(cache, last.key) = Others(prev.cache, last.key)

\* A put with a new value of the least-recent key of a full cache of
\* capacity 2 or more.
C10_Witness ==
    /\ Called("put")
    /\ last.found
    /\ Size(prev.cache) = capacity
    /\ capacity >= 2
    /\ prev.cache[1].key = last.key
    /\ GetItem(prev.cache, last.key) # last.value

\* The keys of c in their order.
KeySeq(c) == [i \in 1..Len(c) |-> c[i].key]

\* C11: a put of an absent key into a cache with a free slot appends the
\* key with its value, makes size() one larger and removes nothing: the
\* entries that were there are still there, values and order unchanged.
C11_PutNewKeyBelowCapacity ==
    (Called("put") /\ ~Contains(prev.cache, last.key)
                   /\ Size(prev.cache) < capacity) =>
        /\ Size(cache) = Size(prev.cache) + 1
        /\ LastKey(cache) = last.key
        /\ GetItem(cache, last.key) = last.value
        /\ last.evicted = NoKey
        /\ KeysOf(cache) = KeysOf(prev.cache) \cup {last.key}
        /\ SubSeq(cache, 1, Len(prev.cache)) = prev.cache

\* A put of a third key into a cache of capacity 3 that held two.
C11_Witness ==
    /\ Called("put")
    /\ ~last.found
    /\ capacity = 3
    /\ Size(prev.cache) = 2
    /\ Size(cache) = 3

\* C12: a put of an absent key into a full cache removes exactly the entry
\* at the least-recent end and appends the new key: size() stays at the
\* capacity and the other entries keep their values and order.
C12_PutNewKeyAtCapacity ==
    (Called("put") /\ ~Contains(prev.cache, last.key)
                   /\ Size(prev.cache) = capacity) =>
        /\ Size(cache) = capacity
        /\ last.evicted = prev.cache[1].key
        /\ KeysOf(prev.cache) \ KeysOf(cache) = {prev.cache[1].key}
        /\ LastKey(cache) = last.key
        /\ GetItem(cache, last.key) = last.value
        /\ SubSeq(cache, 1, Len(cache) - 1) = SubSeq(prev.cache, 2, Len(prev.cache))

\* A put of a fourth key into a full cache of capacity 3.
C12_Witness ==
    /\ Called("put")
    /\ ~last.found
    /\ capacity = 3
    /\ Size(prev.cache) = 3
    /\ last.evicted = prev.cache[1].key
    /\ ~Contains(cache, last.evicted)

\* C13: from the least-recent to the most-recent end the present keys are
\* in strictly increasing order of their most recent use: each was used (by
\* a put or a get hit) before the next one.
C13_OrderIsOrderOfLastUse ==
    pc = "ready" =>
        /\ \A i, j \in 1..Len(cache) :
              i < j => UseRank(uses, cache[i].key) < UseRank(uses, cache[j].key)
        /\ KeySeq(cache) = SelectSeq(uses, LAMBDA k : k \in KeysOf(cache))

\* A get hit on the least-recent of three keys, after an earlier eviction.
C13_Witness ==
    /\ Called("get")
    /\ last.found
    /\ Size(cache) = 3
    /\ prev.cache[1].key = last.key
    /\ Len(uses) = 4

C15_EmptyIffNoPut ==
    pc = "ready" =>
        /\ Size(cache) = 0 <=> ~putSinceClear
        /\ last.op \in {"init", "clear"} => Size(cache) = 0
        /\ last.op = "put" => Size(cache) >= 1

\* The first put after a clear() of a cache that held entries.
C15_Witness ==
    /\ Called("put")
    /\ prev.op = "clear"
    /\ putSinceClear
    /\ Size(cache) = 1

\* C16: on a constructed cache no call raises: not a get of an absent key,
\* a clear of an empty cache, a put into a full cache, size or contains.
C16_NoCallRaises ==
    pc = "ready" => last.raised = NoError

\* clear() was called on an empty cache, after a get.
C16_Witness ==
    /\ Called("clear")
    /\ Size(prev.cache) = 0
    /\ prev.op = "get"
    /\ last.raised = NoError

\* C17: a key that was present is absent after a call only when the call
\* was clear(), or a put of another, absent key into a full cache.
C17_KeysLeaveOnlyByEvictionOrClear ==
    (pc = "ready" /\ KeysOf(prev.cache) \ KeysOf(cache) # {}) =>
        \/ last.op = "clear"
        \/ /\ last.op = "put"
           /\ ~Contains(prev.cache, last.key)
           /\ Size(prev.cache) = capacity
           /\ last.key \notin KeysOf(prev.cache) \ KeysOf(cache)

\* A put of a present key into a full cache of capacity 2 or more: no key
\* has left.
C17_Witness ==
    /\ Called("put")
    /\ last.found
    /\ Size(prev.cache) = capacity
    /\ capacity >= 2
    /\ KeysOf(prev.cache) \ KeysOf(cache) = {}

\* C18: when no present key had a get hit or an update since it was
\* inserted, a put of an absent key into the full cache evicts the key
\* that was inserted first among the present ones.
C18_EvictionFollowsInsertionOrder ==
    [][(last'.op = "put" /\ ~Contains(cache, last'.key)
            /\ Size(cache) = capacity /\ touched \cap KeysOf(cache) = {})
          => (/\ last'.evicted = Head(ins)
              /\ KeysOf(cache) \ KeysOf(cache') = {Head(ins)})]_vars

\* A put into a full cache of capacity 3 has evicted a key that, like the
\* keys still present, had no get hit or update since its insertion.
C18_Witness ==
    /\ Called("put")
    /\ ~last.found
    /\ capacity = 3
    /\ last.evicted # NoKey
    /\ last.evicted \notin touched
    /\ touched \cap KeysOf(cache) = {}
    /\ Len(ins) = 3

\* C19: the membership test is true exactly when the key has an entry,
\* and so is get's hit; a get(k) made right after contains(k), in the state
\* the test left unchanged, hits exactly when the test was true.
C19_ContainsIffGetHits ==
    /\ [](Called("contains") => (last.found <=> last.key \in KeysOf(prev.cache)))
    /\ [](Called("get") => (last.found <=> last.key \in KeysOf(prev.cache)))
    /\ [][(last.op = "contains" /\ last'.op = "get" /\ last'.key = last.key)
             => (last'.found <=> last.found)]_vars

\* The membership test was false for a key that a put has evicted.
C19_Witness ==
    /\ Called("contains")
    /\ ~last.found
    /\ prev.op = "put"
    /\ last.key \in {uses[i] : i \in 1..Len(uses)}

\* C20: in a full cache of capacity 2 or more a get hit on the key at the
\* least-recent end protects it: a put of a new key made next evicts the key
\* that was second from that end before the get.
C20_GetProtectsLeastRecent ==
    [][(/\ last.op = "get" /\ last.found
        /\ capacity >= 2 /\ Size(prev.cache) = capacity
        /\ prev.cache[1].key = last.key
        /\ last'.op = "put" /\ ~Contains(cache, last'.key))
          => (/\ last'.evicted = prev.cache[2].key
              /\ ~Contains(cache', prev.cache[2].key)
              /\ Contains(cache', last.key))]_vars

\* A put of a new key right after a get hit on the first key of a full
\* cache of capacity 2 or more; the key that was hit is still present.
C20_Witness ==
    /\ Called("put")
    /\ ~last.found
    /\ prev.op = "get"
    /\ prev.pos = 1
    /\ capacity >= 2
    /\ Size(prev.cache) = capacity
    /\ last.evicted # NoKey
    /\ Contains(cache, LastKey(prev.cache))

\* C21: in a full cache of capacity 2 or more a put that updates the key at
\* the least-recent end protects it: a put of a new key made next evicts the
\* key that was second from that end before the update, and the updated key
\* is still present with its new value.
C21_UpdateProtectsLeastRecent ==
    [][(/\ last.op = "put" /\ last.found
        /\ capacity >= 2 /\ Size(prev.cache) = capacity
        /\ prev.cache[1].key = last.key
        /\ last'.op = "put" /\ ~Contains(cache, last'.key))
          => (/\ last'.evicted = prev.cache[2].key
              /\ ~Contains(cache', prev.cache[2].key)
              /\ Contains(cache', last.key)
              /\ GetItem(cache', last.key) = last.value)]_vars

\* A put of a new key right after an update of the first key of a full
\* cache of capacity 2 or more; the updated key is still present.
C21_Witness ==
    /\ Called("put")
    /\ ~last.found
    /\ prev.op = "put"
    /\ prev.pos = 1
    /\ capacity >= 2
    /\ Size(prev.cache) = capacity
    /\ last.evicted # NoKey
    /\ Contains(cache, LastKey(prev.cache))

\* C22: with capacity 1, after any put(k, v) the cache holds exactly the one
\* key k with value v; a put of a different key evicts the key held before,
\* a put of the same key evicts nothing.
C22_CapacityOne ==
    (Called("put") /\ capacity = 1)
        => /\ cache = <<Entry(last.key, last.value)>>
           /\ \A i \in 1..Len(prev.cache) :
                 /\ prev.cache[i].key # last.key
                       => /\ last.evicted = prev.cache[i].key
                          /\ ~Contains(cache, prev.cache[i].key)
                 /\ prev.cache[i].key = last.key => last.evicted = NoKey

\* With capacity 1 a put of a different key has evicted the key held before.
C22_Witness ==
    /\ Called("put")
    /\ capacity = 1
    /\ Len(prev.cache) = 1
    /\ prev.cache[1].key # last.key
    /\ last.evicted = prev.cache[1].key

\* C26: the present keys are exactly the min(capacity, n) most recently used
\* distinct keys since construction or the last clear, n being the number of
\* distinct keys used since then; a used key is absent exactly when at least
\* capacity other distinct keys were used since its last use.
C26_PresentAreMostRecentlyUsed ==
    pc = "ready"
        => LET n == Len(uses)
               m == IF capacity < n THEN capacity ELSE n
           IN  /\ KeysOf(cache) = {uses[i] : i \in (n - m + 1)..n}
               /\ Size(cache) = m
               /\ \A i \in 1..n :
                     ~Contains(cache, uses[i]) <=> n - i >= capacity

\* More distinct keys were used than fit, the last use being a get hit.
C26_Witness ==
    /\ Called("get")
    /\ last.found
    /\ capacity = 2
    /\ Len(uses) = 4
    /\ Size(cache) = 2

\* C29: a get of an absent key returns not-found and changes nothing: keys,
\* values, size and order are as before, it is not a use, and a put made in
\* the resulting state evicts what it would have evicted before.
C29_GetMissFrame ==
    (Called("get") /\ ~Contains(prev.cache, last.key))
        => /\ ~last.found
           /\ last.ret = None
           /\ cache = prev.cache
           /\ uses = prev.uses
           /\ \A k \in Keys :
                 PutEvicted(cache, capacity, k) = PutEvicted(prev.cache, capacity, k)

\* A get missed on a full cache.
C29_Witness ==
    /\ Called("get")
    /\ ~last.found
    /\ ~Contains(prev.cache, last.key)
    /\ Size(prev.cache) = capacity

\* C27: after clear() the cache behaves as a newly constructed cache of the
\* same capacity: whatever calls follow, both hold the same entries in the
\* same order and every call returns the same result and evicts the same key
\* on both.
C27_ClearedLikeNew ==
    twin.made
        => /\ twin.capacity = capacity
           /\ twin.cache = cache
           /\ IF last.op = "clear"
              THEN twinLast.op \in {"init", "clear"}
              ELSE twinLast = last

\* A clear emptied a full cache, and a later put evicted a key.
C27_Witness ==
    /\ twin.made
    /\ twin.dropped = capacity
    /\ capacity >= 2
    /\ last.op = "put"
    /\ last.evicted # NoKey
    /\ twinLast.evicted = last.evicted

\* C23: once revoke_token or logout was called with a token, every later
\* validate_token and validate_access_token call with that token rejects it,
\* whatever register, login, refresh, logout and revoke calls were made in
\* between.
C23_RevokedStaysRejected ==
    /\ [](\A t \in everRevoked :
             /\ ValidateToken(revoked, t, clock) = NoPayload
             /\ ValidateAccessToken(revoked, t, clock) = NoUserId)
    /\ []((authLast.op \in {"validate_token", "validate_access_token"}
            /\ authLast.token \in everRevoked)
               => (~authLast.ok /\ authLast.ret = NoUserId))
    /\ [][everRevoked \subseteq everRevoked']_vars

\* A revoked access token that is signed and has not expired was rejected
\* after the refresh token of the same login had been used.
C23_Witness ==
    /\ authLast.op = "validate_access_token"
    /\ authLast.token \in everRevoked
    /\ authLast.token \in issued
    /\ authLast.token.type = "access"
    /\ authLast.at < authLast.token.exp
    /\ ~authLast.ok
    /\ Cardinality(issued) > 2

\* C24: refresh succeeds only for a signed, unexpired, unrevoked token of
\* type refresh and fails for every access token; validate_access_token
\* returns a user id only for a signed, unexpired, unrevoked token of type
\* access, and None for every refresh token.
C24_TokenTypesNotInterchangeable ==
    /\ authLast.op = "refresh"
          => /\ authLast.ok
                   => /\ authLast.token \in issued
                      /\ authLast.token.type = "refresh"
                      /\ authLast.token \notin revoked
                      /\ authLast.at < authLast.token.exp
             /\ authLast.token.type = "access" => ~authLast.ok
    /\ authLast.op = "validate_access_token"
          => /\ authLast.ret # NoUserId
                   => /\ authLast.token \in issued
                      /\ authLast.token.type = "access"
                      /\ authLast.token \notin revoked
                      /\ authLast.at < authLast.token.exp
                      /\ authLast.ret = authLast.token.user_id
             /\ authLast.token.type = "refresh" => authLast.ret = NoUserId

\* refresh was refused for an access token that is signed, unexpired and
\* not revoked.
C24_Witness ==
    /\ authLast.op = "refresh"
    /\ authLast.token \in issued
    /\ authLast.token.type = "access"
    /\ authLast.token \notin revoked
    /\ authLast.at < authLast.token.exp
    /\ ~authLast.ok
    /\ authLast.msg = "Invalid token type"

\* C25: in the baseline auth system no two stored users share a username and
\* no two share an email; a register call whose username or email is taken,
\* or whose username, email or password fails validation, returns
\* (False, message, None) and leaves the stored users unchanged.
C25_UniqueUsersAndRefusals ==
    /\ \A i, j \in 1..Len(baseUsers) :
          i # j => /\ baseUsers[i].username # baseUsers[j].username
                   /\ baseUsers[i].email # baseUsers[j].email
    /\ (/\ baseLast.op = "register"
        /\ \/ \E i \in 1..Len(basePrev) :
                 \/ basePrev[i].username = baseLast.username
                 \/ basePrev[i].email = baseLast.email
           \/ Len(baseLast.username) < 3
           \/ \A i \in 1..Len(baseLast.email) : baseLast.email[i] # "@"
           \/ Len(baseLast.password) < 6)
          => /\ ~baseLast.ok
             /\ baseLast.msg # ""
             /\ baseLast.ret = NoUserId
             /\ baseUsers = basePrev

\* A register with valid arguments and a new username was refused because
\* its email is taken.
C25_Witness ==
    /\ baseLast.op = "register"
    /\ Len(baseUsers) >= 1
    /\ Len(baseLast.username) = 3
    /\ Len(baseLast.password) = 6
    /\ \E i \in 1..Len(basePrev) : basePrev[i].email = baseLast.email
    /\ \A i \in 1..Len(basePrev) : basePrev[i].username # baseLast.username
    /\ ~baseLast.ok

\* C30: two puts made by two threads without a lock can leave more entries
\* than the capacity (the witness); when every put is made under one lock,
\* no interleaving of the threads' steps leaves more.
C30_LockedPutsKeepCapacity ==
    (start.made /\ sync)
        => /\ Size(cache) <= capacity
           /\ \A t \in Threads : threads[t].pc # "KeyError"

\* Without the lock: the cache held capacity - 1 entries when the threads
\* were started, they put two distinct keys that were absent, both puts have
\* returned, and the cache holds more entries than its capacity.
C30_Witness ==
    /\ start.made
    /\ ~sync
    /\ Size(start.cache) = capacity - 1
    /\ threads["t1"].pc = "done"
    /\ threads["t2"].pc = "done"
    /\ threads["t1"].key # threads["t2"].key
    /\ ~Contains(start.cache, threads["t1"].key)
    /\ ~Contains(start.cache, threads["t2"].key)
    /\ Size(cache) > capacity

====
